---- MODULE Spec2Model ----
(***************************************************************************)
(* Model of the rust-indexer process: main -> run -> start_from ->         *)
(* event_loop, together with the sync (checkpoint) table it writes.        *)
(*                                                                         *)
(* One process instance runs at a time against one SQLite file.  A run is  *)
(* split at its external calls (RPC chain id query, the upsert of          *)
(* start_from, event_loop), because the process can be killed between      *)
(* them.  The table survives the process; everything else is per run.      *)
(*                                                                         *)
(* Integer widths are scaled: u64/i64 are WordBits wide and the i32 row    *)
(* key is KeyBits wide, so that the casts `chain_id as i32` and            *)
(* `start as i64 - 1` wrap at values the checker can enumerate.            *)
(***************************************************************************)
EXTENDS Integers, FiniteSets, Sequences, TLC

\* ---- bounds -------------------------------------------------------------
\* scaled width of the i32 key column (schema.rs: chain_id -> Integer)
KeyBits == 2
\* scaled width of u64 / i64 (Config.chain_id, Config.start_block, BigInt)
WordBits == 4
\* largest safe chain tip the environment reports
MaxTip == 2

KeyMod == 2 ^ KeyBits
WordMod == 2 ^ WordBits
I64Min == 0 - (WordMod \div 2)
I64Max == (WordMod \div 2) - 1

\* ---- inputs -------------------------------------------------------------
\* Config.chain_id / eth_chainId values: two that differ only above the key
\* width, and one that differs below it.
ChainIds == {1, 2, 1 + KeyMod}
\* Config.start_block values: 0, a small one, and the two halves' edges of u64
StartBlocks == {0, 2, WordMod \div 2, WordMod - 1}
Tips == 0..MaxTip

\* Option<T>: None is <<>>, Some(x) is <<x>>
None == <<>>
Some(x) == <<x>>

\* ---- casts --------------------------------------------------------------
\* `chain_id as i32`: keep the low KeyBits bits, reinterpret as signed
AsI32(x) ==
  LET m == x % KeyMod IN IF m >= KeyMod \div 2 THEN m - KeyMod ELSE m

\* `start as i64`: reinterpret the WordBits-bit pattern as signed
AsI64(x) ==
  LET m == x % WordMod IN IF m >= WordMod \div 2 THEN m - WordMod ELSE m

\* `start as i64 - 1` overflows when `start as i64` is i64::MIN: a build with
\* overflow checks panics there, a build without them wraps to i64::MAX.
StartBlockOverflows(start) == AsI64(start) = I64Min
StartBlockValue(start) ==
  IF AsI64(start) = I64Min THEN I64Max ELSE AsI64(start) - 1

Keys == {AsI32(c) : c \in ChainIds}
Configs == [chain_id : ChainIds, start_block : StartBlocks]

VARIABLES
  sync,          \* the sync table: chain_id (i32 key) -> block_number (i64)
  pc,            \* position of the process
  config,        \* Config of the current (or last) run
  rpc_chain_id,  \* run's local rpc_chain_id, None before the query returns
  is_start_set,  \* run's local is_start_set, None before start_from returns
  err,           \* the error run returned: none, rpc, mismatch, database, panic
  chainIdCalls,  \* number of provider.chain_id() calls made by this run
  syncAtStart,   \* the sync table as it was when this run started
  recovering,    \* this run follows a killed run and has the same Config
  safeTip,       \* the chain's safe tip (fixed)
  seededBy       \* for each row of sync, the u64 chain id it was last written for

vars == <<sync, pc, config, rpc_chain_id, is_start_set, err, chainIdCalls,
          syncAtStart, recovering, safeTip, seededBy>>

Running == {"chain_id", "start_from", "event_loop"}
Stopped == {"idle", "exited", "failed", "killed"}

\* the row key of the configured chain, and whether it has a checkpoint row
Key == AsI32(config.chain_id)
HasRow(table, k) == k \in DOMAIN table
Tables == UNION {[ks -> I64Min..I64Max] : ks \in SUBSET Keys}

Max(a, b) == IF a >= b THEN a ELSE b

TypeOK ==
  /\ sync \in Tables
  /\ pc \in Running \cup Stopped
  /\ config \in Configs
  /\ rpc_chain_id \in {None} \cup {Some(c) : c \in ChainIds}
  /\ is_start_set \in {None} \cup {Some(b) : b \in BOOLEAN}
  /\ err \in {"none", "rpc", "mismatch", "database", "panic"}
  /\ chainIdCalls \in 0..1
  /\ syncAtStart \in Tables
  /\ recovering \in BOOLEAN
  /\ safeTip \in Tips
  /\ seededBy \in UNION {[ks -> ChainIds] : ks \in SUBSET Keys}
  /\ DOMAIN seededBy = DOMAIN sync

Init ==
  /\ sync = [k \in {} |-> 0]
  /\ pc = "idle"
  /\ config \in Configs
  /\ rpc_chain_id = None
  /\ is_start_set = None
  /\ err = "none"
  /\ chainIdCalls = 0
  /\ syncAtStart = sync
  /\ recovering = FALSE
  /\ safeTip \in Tips
  /\ seededBy = [k \in {} |-> 0]

\* ---- main / run up to the chain id query ---------------------------------
\* main reads the Config from the environment and run opens the database,
\* applies the migrations and builds the provider.
Start(cfg) ==
  /\ pc \in Stopped
  /\ pc' = "chain_id"
  /\ config' = cfg
  /\ rpc_chain_id' = None
  /\ is_start_set' = None
  /\ err' = "none"
  /\ chainIdCalls' = 0
  /\ syncAtStart' = sync
  /\ recovering' = (pc = "killed" /\ cfg = config)
  /\ UNCHANGED <<sync, safeTip, seededBy>>

\* SqliteConnection::establish / run_pending_migrations fail: run panics
StartPanic(cfg) ==
  /\ pc \in Stopped
  /\ pc' = "failed"
  /\ config' = cfg
  /\ rpc_chain_id' = None
  /\ is_start_set' = None
  /\ err' = "panic"
  /\ chainIdCalls' = 0
  /\ syncAtStart' = sync
  /\ recovering' = (pc = "killed" /\ cfg = config)
  /\ UNCHANGED <<sync, safeTip, seededBy>>

\* ---- chain id validation -------------------------------------------------
\* `rpc_chain_id != config.chain_id` is compared on the u64 values
ChainIdMatches_narrowed(rpc, expected) == AsI32(rpc) = AsI32(expected)
ChainIdMatches(rpc, expected) == rpc = expected

\* where run goes when provider.chain_id() returns Err: `?` returns it
RpcErrorNext_swallowed == "start_from"
RpcErrorNext == "failed"

\* provider.chain_id() returns Ok(r)
ChainIdOk(r) ==
  /\ pc = "chain_id"
  /\ chainIdCalls' = chainIdCalls + 1
  /\ rpc_chain_id' = Some(r)
  /\ IF ChainIdMatches(r, config.chain_id)
       THEN pc' = "start_from" /\ err' = err
       ELSE pc' = "failed" /\ err' = "mismatch"
  /\ UNCHANGED <<sync, config, is_start_set, syncAtStart, recovering, safeTip, seededBy>>

\* provider.chain_id() returns Err(IndexerError::Rpc)
ChainIdErr ==
  /\ pc = "chain_id"
  /\ chainIdCalls' = chainIdCalls + 1
  /\ pc' = RpcErrorNext
  /\ err' = "rpc"
  /\ UNCHANGED <<sync, config, rpc_chain_id, is_start_set, syncAtStart,
                 recovering, safeTip, seededBy>>

\* ---- start_from ----------------------------------------------------------
\* INSERT ... ON CONFLICT (chain_id) DO UPDATE SET block_number = v
\* the row is inserted when absent and overwritten when present
Upsert(table, k, v) ==
  [x \in DOMAIN table \cup {k} |-> IF x = k THEN v ELSE table[x]]

\* the value start_from returns after a successful upsert: `Ok(true)`
StartFromResult(table, k, v) == TRUE

StartFromOk ==
  /\ pc = "start_from"
  /\ LET v == StartBlockValue(config.start_block) IN
       /\ sync' = Upsert(sync, Key, v)
       /\ is_start_set' = Some(StartFromResult(sync, Key, v))
  /\ seededBy' = Upsert(seededBy, Key, config.chain_id)
  /\ pc' = "event_loop"
  /\ UNCHANGED <<config, rpc_chain_id, err, chainIdCalls, syncAtStart,
                 recovering, safeTip>>

\* the table after execute(conn) has failed: the single statement is atomic,
\* nothing of it is applied
DbErrorTable_applied(table, k, v) == Upsert(table, k, v)
DbErrorTable(table, k, v) == table

\* execute(conn)? fails: IndexerError::Database, returned by run
StartFromDbErr ==
  /\ pc = "start_from"
  /\ sync' = DbErrorTable(sync, Key, StartBlockValue(config.start_block))
  /\ pc' = "failed"
  /\ err' = "database"
  /\ UNCHANGED <<config, rpc_chain_id, is_start_set, chainIdCalls,
                 syncAtStart, recovering, safeTip, seededBy>>

\* `start as i64 - 1` overflows in a build with overflow checks
StartFromPanic ==
  /\ pc = "start_from"
  /\ StartBlockOverflows(config.start_block)
  /\ pc' = "failed"
  /\ err' = "panic"
  /\ UNCHANGED <<sync, config, rpc_chain_id, is_start_set, chainIdCalls,
                 syncAtStart, recovering, safeTip, seededBy>>

\* ---- event_loop ----------------------------------------------------------
\* the body is `Ok(())`: nothing is fetched, stored or advanced
EventLoop ==
  /\ pc = "event_loop"
  /\ pc' = "exited"
  /\ UNCHANGED <<sync, config, rpc_chain_id, is_start_set, err, chainIdCalls,
                 syncAtStart, recovering, safeTip, seededBy>>

\* ---- the process is killed ----------------------------------------------
Kill ==
  /\ pc \in Running
  /\ pc' = "killed"
  /\ UNCHANGED <<sync, config, rpc_chain_id, is_start_set, err, chainIdCalls,
                 syncAtStart, recovering, safeTip, seededBy>>

Next ==
  \/ \E cfg \in Configs : Start(cfg)
  \/ \E cfg \in Configs : StartPanic(cfg)
  \/ \E r \in ChainIds : ChainIdOk(r)
  \/ ChainIdErr
  \/ StartFromOk
  \/ StartFromDbErr
  \/ StartFromPanic
  \/ EventLoop
  \/ Kill

Spec == Init /\ [][Next]_vars

\* ---- properties ---------------------------------------------------------

\* a successful start_from step of the current run
SeedStep == pc = "start_from" /\ pc' = "event_loop"

\* C1: seeding never lowers a checkpoint.  After start_from has stored its
\* value v (start - 1 as the code computes it), the checkpoint of the chain
\* is v when there was no row and max(c, v) when the row held c.
C1_SeedNeverLowers ==
  [][SeedStep =>
       LET v == StartBlockValue(config.start_block) IN
         /\ HasRow(sync', Key)
         /\ sync'[Key] = IF HasRow(sync, Key) THEN Max(sync[Key], v) ELSE v]_vars

\* C4: crash recovery does not regress progress.  In a run started after the
\* previous run was killed, with the same Config, no step of the startup
\* sequence takes the chain's checkpoint below the value it had when the
\* previous run was killed (read in its weakest form: the checkpoint is kept
\* or raised, never lowered or removed).
C4_RecoveryKeepsCheckpoint ==
  [][(recovering /\ pc \in Running /\ HasRow(sync, Key)) =>
       (HasRow(sync', Key) /\ sync'[Key] >= sync[Key])]_vars

\* C6: on a chain-id mismatch the process does not proceed.  The chain id is
\* queried at most once per run and exactly once before seeding; seeding and
\* the event loop are reached only with the RPC's chain id equal to the
\* configured one; after a mismatch the run has failed with the mismatch
\* error, start_from has not returned and the sync table is as the run
\* found it.
C6_ChainIdMismatchFatal ==
  /\ chainIdCalls <= 1
  /\ pc \in {"start_from", "event_loop", "exited"} =>
       (chainIdCalls = 1 /\ rpc_chain_id = Some(config.chain_id))
  /\ (rpc_chain_id # None /\ rpc_chain_id # Some(config.chain_id)) =>
       /\ pc = "failed"
       /\ err = "mismatch"
       /\ is_start_set = None
       /\ sync = syncAtStart

\* a run has failed on a mismatch while the chain already had a checkpoint
C6_Witness ==
  /\ pc = "failed"
  /\ err = "mismatch"
  /\ rpc_chain_id # None
  /\ rpc_chain_id # Some(config.chain_id)
  /\ HasRow(sync, Key)

\* C8: coverage.  With the safe tip fixed at t and a checkpoint c <= t, the
\* engine brings the checkpoint to exactly t; stated on the final result: a
\* run whose event loop has returned has left the checkpoint at t.
C8_Coverage ==
  (pc = "exited" /\ HasRow(sync, Key) /\ sync[Key] <= safeTip) =>
    sync[Key] = safeTip

C14_SeedReportsChange ==
  [][SeedStep =>
       is_start_set' =
         Some(~HasRow(sync, Key) \/ sync'[Key] > sync[Key])]_vars

\* C15: the event loop runs until interrupted.  The code handles no shutdown
\* signal, so a run never ends with event_loop having returned success.
C15_EventLoopNeverReturns == pc # "exited"

C17_SeedStoresStartMinusOne ==
  [][(SeedStep /\ ~HasRow(sync, Key)) =>
       (HasRow(sync', Key) /\ sync'[Key] = config.start_block - 1)]_vars

\* C18: checkpoint rows of different chains never collide.  Seeding the
\* configured chain leaves every row that was last written for another
\* (64-bit) chain id unchanged.
C18_ChainsNeverCollide ==
  [][SeedStep =>
       \A k \in DOMAIN sync :
         seededBy[k] # config.chain_id => sync'[k] = sync[k]]_vars

====
